---- MODULE Spec2Model ----
(***************************************************************************)
(* Frame (src/util/frame/mod.rs) and Compliance (src/codec/compliance.rs)  *)
(* of rust-ffmpeg-next.                                                    *)
(*                                                                         *)
(* A Frame is a raw pointer to a native AVFrame plus the tag _own.  The    *)
(* native record lives in `heap'; the Rust objects live in `frames'.  The  *)
(* libavutil functions the methods call (av_frame_alloc, av_frame_free,    *)
(* av_frame_new_side_data, av_frame_get_side_data,                         *)
(* av_frame_remove_side_data) are modelled at their call sites as          *)
(* libavutil/frame.c implements them.                                      *)
(*                                                                         *)
(* 64-bit integers (i64 timestamps, usize sizes) are pairs <<hi, lo>> of   *)
(* their high and low 32-bit words, each word read as an i32, so that the  *)
(* full width is kept: the value is hi * 2^32 + (lo mod 2^32).             *)
(***************************************************************************)
EXTENDS Integers, Sequences, FiniteSets, TLC

\* ---- bounds ----
NBuf == 2          \* native AVFrame records that can ever be allocated
NFrames == 2       \* Frame objects that can ever be constructed
MaxSide == 3       \* side-data entries per frame before allocation fails
RawBits == 5       \* raw flag integers range over -(2^RawBits) .. 2^RawBits - 1
MaxConv == 2       \* conversions applied in a row to a compliance value
CodeSpan == 40     \* compliance codes range over -CodeSpan .. CodeSpan

VARIABLES heap, frames, last, ckind, ctrace

vars == <<heap, frames, last, ckind, ctrace>>

NULL == 0
Buf == 1..NBuf
Fr == 1..NFrames

\* Option<T>
None == <<>>
Some(v) == <<v>>

\* ---- 64-bit words ----
MinI32 == -2147483647 - 1
MaxI32 == 2147483647
\* 0x8000000000000000 as i64
AV_NOPTS_VALUE == <<MinI32, 0>>
\* `x as c_int` of a 64-bit x: the low word, read as an i32
as_c_int(x) == x[2]
\* `x as usize` of a non-negative c_int
as_usize(x) == <<0, x>>

\* ---- the native record ----
\* libavutil get_frame_defaults, behind av_frame_alloc
get_frame_defaults ==
    [st |-> "live", pts |-> AV_NOPTS_VALUE, key_frame |-> 1, flags |-> 0,
     side |-> <<>>, metadata |-> NULL, nfree |-> 0]

Unallocated ==
    [st |-> "unalloc", pts |-> AV_NOPTS_VALUE, key_frame |-> 0, flags |-> 0,
     side |-> <<>>, metadata |-> NULL, nfree |-> 0]

\* what is left of a record once av_frame_free has run on it; nfree counts
\* the av_frame_free calls that reached it
Released(b) ==
    [st |-> "freed", pts |-> AV_NOPTS_VALUE, key_frame |-> 0, flags |-> 0,
     side |-> <<>>, metadata |-> NULL, nfree |-> b.nfree + 1]

\* av_frame_alloc: the lowest free record, or NULL when the allocator fails
av_frame_alloc(h, ok) ==
    IF ok /\ \E b \in Buf : h[b].st = "unalloc"
    THEN CHOOSE b \in Buf : h[b].st = "unalloc" /\ \A c \in Buf : h[c].st = "unalloc" => b <= c
    ELSE NULL

\* av_frame_free(&p): nothing on NULL, otherwise the record is released
av_frame_free(h, p) ==
    IF p = NULL THEN h ELSE [h EXCEPT ![p] = Released(h[p])]

\* ---- the Rust object ----
NoFrame == [st |-> "none", ptr |-> NULL, own |-> FALSE, frees |-> 0]

\* Frame { ptr, _own }
Frame(ptr, own) == [st |-> "live", ptr |-> ptr, own |-> own, frees |-> 0]

\* what dereferencing self.ptr meets
Deref(f) ==
    IF frames[f].ptr = NULL THEN "null"
    ELSE IF heap[frames[f].ptr].st = "live" THEN "ok" ELSE "freed"

\* the record of the latest call: its arguments, what it returned, what the
\* pointer it dereferenced pointed at, and (for remove_side_data) the
\* side-data list before the call
Call(op, f, deref, k, n, x, ret, pre) ==
    [op |-> op, f |-> f, deref |-> deref, k |-> k, n |-> n, x |-> x, ret |-> ret, pre |-> pre]

NoCall == Call("init", 0, "ok", "", <<>>, <<>>, <<>>, <<>>)

\* *self.as_ptr()
buf(f) == heap[frames[f].ptr]

\* ---- Flags (util/frame/flag.rs, a bitflags set over c_int) ----
CORRUPT == 1
KEY == 2
DISCARD == 4
INTERLACED == 8
NamedBits == {CORRUPT, KEY, DISCARD, INTERLACED}

\* bit `mask' (a power of two) of the two's-complement integer r
HasBit(r, mask) == (r % (2 * mask)) >= mask

RECURSIVE SumOf(_)
SumOf(S) == IF S = {} THEN 0 ELSE LET m == CHOOSE m \in S : TRUE IN m + SumOf(S \ {m})

\* Flags::from_bits_truncate: the named bits of r, every other bit cleared
from_bits_truncate(r) == SumOf({m \in NamedBits : HasBit(r, m)})

\* Flags::contains
contains(fl, mask) == HasBit(fl, mask)

\* ---- side data (libavutil) ----
Kinds == {"Stereo3D", "MotionVectors"}

\* side_data::Type -> AVFrameSideDataType
Type_into(kind) == CASE kind = "Stereo3D" -> 2 [] kind = "MotionVectors" -> 8

\* av_frame_get_side_data: the first entry of the type, NULL if there is none
av_frame_get_side_data(side, type) ==
    IF \E i \in 1..Len(side) : side[i].type = type
    THEN CHOOSE i \in 1..Len(side) :
            side[i].type = type /\ \A j \in 1..(i - 1) : side[j].type # type
    ELSE NULL

\* av_frame_new_side_data: appends an entry of `size' bytes; NULL when the
\* entry array cannot grow or av_buffer_alloc(size) fails (it does for size < 0)
av_frame_new_side_data(side, type, size, ok) ==
    IF ok /\ Len(side) < MaxSide /\ size >= 0
    THEN [side |-> Append(side, [type |-> type, size |-> size]), ptr |-> Len(side) + 1]
    ELSE [side |-> side, ptr |-> NULL]

\* the same loop run upwards, for (i = 0; i < nb; i++): the entry moved into
\* slot i is never looked at
RECURSIVE remove_upwards(_, _, _)
remove_upwards(side, type, i) ==
    IF i > Len(side) THEN side
    ELSE IF side[i].type = type
         THEN remove_upwards([j \in 1..(Len(side) - 1) |-> IF j = i THEN side[Len(side)] ELSE side[j]],
                             type, i + 1)
         ELSE remove_upwards(side, type, i + 1)

av_frame_remove_side_data_upwards(side, type) == remove_upwards(side, type, 1)

\* av_frame_remove_side_data: for (i = nb - 1; i >= 0; i--) an entry of the
\* type is freed and its slot takes the last entry
RECURSIVE remove_from(_, _, _)
remove_from(side, type, i) ==
    IF i = 0 THEN side
    ELSE IF side[i].type = type
         THEN remove_from([j \in 1..(Len(side) - 1) |-> IF j = i THEN side[Len(side)] ELSE side[j]],
                          type, i - 1)
         ELSE remove_from(side, type, i - 1)

av_frame_remove_side_data(side, type) == remove_from(side, type, Len(side))

\* SideData::wrap(ptr) and the byte extent it exposes: (*ptr).size as usize
SideData_extent(side, ptr) == as_usize(side[ptr].size)

\* the side-data entries of a type
Count(side, type) == Cardinality({i \in 1..Len(side) : side[i].type = type})

\* the extent of the handle a lookup of `kind' in `side' returns, None when
\* the lookup returns a null pointer
side_data_in(side, kind) ==
    LET ptr == av_frame_get_side_data(side, Type_into(kind))
    IN  IF ptr = NULL THEN None ELSE Some(SideData_extent(side, ptr))

\* ---- readers of a Frame whose pointer is valid ----
\* pts() without the match on the sentinel
pts_raw(f) == Some(buf(f).pts)

pts(f) == IF buf(f).pts = AV_NOPTS_VALUE THEN None ELSE Some(buf(f).pts)

\* flags() keeping every bit of the raw field
flags_raw(f) == buf(f).flags

flags(f) == from_bits_truncate(buf(f).flags)

is_key(f) == buf(f).key_frame = 1

is_corrupt(f) == contains(flags(f), CORRUPT)

side_data(f, kind) == side_data_in(buf(f).side, kind)

\* value.unwrap_or(0)
unwrap_or_zero(value) == IF value = None THEN <<0, 0>> ELSE value[1]

\* value.unwrap_or(AV_NOPTS_VALUE)
unwrap_or_nopts(value) == IF value = None THEN AV_NOPTS_VALUE ELSE value[1]

\* ---- constructors and destructor ----
\* an AVFrame produced and owned by an external stage, later handed to wrap
external_frame(c) ==
    /\ \E b \in Buf : heap[b].st = "unalloc"
    /\ heap' = [heap EXCEPT ![av_frame_alloc(heap, TRUE)] = c]
    /\ last' = Call("external", 0, "ok", "", <<>>, <<>>, <<>>, <<>>)
    /\ UNCHANGED <<frames, ckind, ctrace>>

wrap(f, p) ==
    /\ frames[f].st = "none"
    /\ heap[p].st = "live"
    /\ frames' = [frames EXCEPT ![f] = Frame(p, FALSE)]
    /\ last' = Call("wrap", f, "ok", "", <<>>, <<>>, <<>>, <<>>)
    /\ UNCHANGED <<heap, ckind, ctrace>>

empty(f, ok) ==
    /\ frames[f].st = "none"
    /\ LET p == av_frame_alloc(heap, ok)
       IN  /\ frames' = [frames EXCEPT ![f] = Frame(p, TRUE)]
           /\ heap' = IF p = NULL THEN heap ELSE [heap EXCEPT ![p] = get_frame_defaults]
    /\ last' = Call("empty", f, "ok", "", <<>>, <<>>, <<>>, <<>>)
    /\ UNCHANGED <<ckind, ctrace>>

\* a destructor that lets go of the pointer without av_frame_free
drop_leak(f) ==
    /\ frames[f].st = "live"
    /\ frames' = [frames EXCEPT ![f].st = "dropped"]
    /\ last' = Call("drop", f, Deref(f), "", <<>>, <<>>, <<>>, <<>>)
    /\ UNCHANGED <<heap, ckind, ctrace>>

\* Drop for Frame: av_frame_free(&mut self.as_mut_ptr())
drop(f) ==
    /\ frames[f].st = "live"
    /\ heap' = av_frame_free(heap, frames[f].ptr)
    /\ frames' = [frames EXCEPT ![f].st = "dropped",
                                ![f].frees = @ + (IF frames[f].ptr = NULL THEN 0 ELSE 1)]
    /\ last' = Call("drop", f, Deref(f), "", <<>>, <<>>, <<>>, <<>>)
    /\ UNCHANGED <<ckind, ctrace>>

\* ---- mutators ----
\* A method called on a Frame whose pointer is NULL or released dereferences
\* it all the same: the call is recorded with what the pointer met, and the
\* model follows the native record no further.
set_pts(f, value) ==
    /\ frames[f].st = "live"
    /\ heap' = IF Deref(f) = "ok"
               THEN [heap EXCEPT ![frames[f].ptr].pts = unwrap_or_nopts(value)]
               ELSE heap
    /\ last' = Call("set_pts", f, Deref(f), "", <<>>, value, <<>>, <<>>)
    /\ UNCHANGED <<frames, ckind, ctrace>>

\* av_frame_set_metadata(self.as_mut_ptr(), value.disown())
set_metadata(f, value) ==
    /\ frames[f].st = "live"
    /\ heap' = IF Deref(f) = "ok"
               THEN [heap EXCEPT ![frames[f].ptr].metadata = value]
               ELSE heap
    /\ last' = Call("set_metadata", f, Deref(f), "", <<>>, <<>>, <<>>, <<>>)
    /\ UNCHANGED <<frames, ckind, ctrace>>

new_side_data(f, kind, size, ok) ==
    /\ frames[f].st = "live"
    /\ IF Deref(f) = "ok"
       THEN LET r == av_frame_new_side_data(buf(f).side, Type_into(kind), as_c_int(size), ok)
            IN  /\ heap' = [heap EXCEPT ![frames[f].ptr].side = r.side]
                /\ last' = Call("new_side_data", f, "ok", kind, size, <<>>,
                                IF r.ptr = NULL THEN None ELSE Some(r.ptr), <<>>)
       ELSE /\ heap' = heap
            /\ last' = Call("new_side_data", f, Deref(f), kind, size, <<>>, None, <<>>)
    /\ UNCHANGED <<frames, ckind, ctrace>>

remove_side_data(f, kind) ==
    /\ frames[f].st = "live"
    /\ IF Deref(f) = "ok"
       THEN /\ heap' = [heap EXCEPT ![frames[f].ptr].side =
                            av_frame_remove_side_data(buf(f).side, Type_into(kind))]
            /\ last' = Call("remove_side_data", f, "ok", kind, <<>>, <<>>, <<>>, buf(f).side)
       ELSE /\ heap' = heap
            /\ last' = Call("remove_side_data", f, Deref(f), kind, <<>>, <<>>, <<>>, <<>>)
    /\ UNCHANGED <<frames, ckind, ctrace>>

\* ---- ownership and lifetime: several Frames over shared records ----
FrameInit ==
    /\ heap = [b \in Buf |-> Unallocated]
    /\ frames = [f \in Fr |-> NoFrame]
    /\ last = NoCall

ComplianceIdle ==
    /\ ckind = "idle"
    /\ ctrace = <<>>

Init == FrameInit /\ ComplianceIdle

Next ==
    \/ external_frame(get_frame_defaults)
    \/ \E f \in Fr, p \in Buf : wrap(f, p)
    \/ \E f \in Fr, ok \in BOOLEAN : empty(f, ok)
    \/ \E f \in Fr : drop(f)
    \/ \E f \in Fr : set_pts(f, Some(<<0, 0>>))
    \/ \E f \in Fr : set_metadata(f, 1)
    \/ \E f \in Fr : new_side_data(f, "MotionVectors", <<0, 64>>, TRUE)
    \/ \E f \in Fr : remove_side_data(f, "MotionVectors")

Spec == Init /\ [][Next]_vars

\* ---- one Frame, every input ----
\* timestamps around the sentinel and the ends of the i64 range
PtsVals == {AV_NOPTS_VALUE, <<MinI32, 1>>, <<-1, -1>>, <<0, 0>>, <<MaxI32, -1>>}
OptPts == {None} \cup {Some(v) : v \in PtsVals}

\* requested sizes (usize): 8, 64, 2^32 - 1 and 2^32 + 64
Sizes == {<<0, 8>>, <<0, 64>>, <<0, -1>>, <<1, 64>>}

\* the AVFrames an external stage hands over: any timestamp
DecodedFrames == {[get_frame_defaults EXCEPT !.pts = v] : v \in PtsVals}

NextFrame ==
    \/ \E c \in DecodedFrames : heap[1].st = "unalloc" /\ external_frame(c)
    \/ \E p \in Buf : wrap(1, p)
    \/ \E ok \in BOOLEAN : empty(1, ok)
    \/ drop(1)
    \/ \E x \in OptPts : set_pts(1, x)
    \/ set_metadata(1, 1)
    \/ \E k \in Kinds, n \in Sizes, ok \in BOOLEAN : new_side_data(1, k, n, ok)
    \/ \E k \in Kinds : remove_side_data(1, k)

SpecFrame == Init /\ [][NextFrame]_vars

\* ---- one wrapped Frame, every raw flags integer and key_frame value ----
RawFlags == (-(2 ^ RawBits))..(2 ^ RawBits - 1)
KeyFrames == {-1, 0, 1, 2}

FlaggedFrames ==
    {[get_frame_defaults EXCEPT !.flags = r, !.key_frame = k] : r \in RawFlags, k \in KeyFrames}

NextFlags ==
    \/ \E c \in FlaggedFrames : heap[1].st = "unalloc" /\ external_frame(c)
    \/ \E p \in Buf : wrap(1, p)
    \/ drop(1)

SpecFlags == Init /\ [][NextFlags]_vars

\* ---- Compliance ----
FF_COMPLIANCE_VERY_STRICT == 2
FF_COMPLIANCE_STRICT == 1
FF_COMPLIANCE_NORMAL == 0
FF_COMPLIANCE_UNOFFICIAL == -1
FF_COMPLIANCE_EXPERIMENTAL == -2

Levels == {"VeryStrict", "Strict", "Normal", "Unofficial", "Experimental"}

\* a decoder whose fallback arm is Compliance::Strict
from_c_int_strict(value) ==
    CASE value = FF_COMPLIANCE_VERY_STRICT -> "VeryStrict"
      [] value = FF_COMPLIANCE_STRICT -> "Strict"
      [] value = FF_COMPLIANCE_NORMAL -> "Normal"
      [] value = FF_COMPLIANCE_UNOFFICIAL -> "Unofficial"
      [] value = FF_COMPLIANCE_EXPERIMENTAL -> "Experimental"
      [] OTHER -> "Strict"

\* impl From<c_int> for Compliance
from_c_int(value) ==
    CASE value = FF_COMPLIANCE_VERY_STRICT -> "VeryStrict"
      [] value = FF_COMPLIANCE_STRICT -> "Strict"
      [] value = FF_COMPLIANCE_NORMAL -> "Normal"
      [] value = FF_COMPLIANCE_UNOFFICIAL -> "Unofficial"
      [] value = FF_COMPLIANCE_EXPERIMENTAL -> "Experimental"
      [] OTHER -> "Normal"

\* impl From<Compliance> for c_int
into_c_int(value) ==
    CASE value = "VeryStrict" -> FF_COMPLIANCE_VERY_STRICT
      [] value = "Strict" -> FF_COMPLIANCE_STRICT
      [] value = "Normal" -> FF_COMPLIANCE_NORMAL
      [] value = "Unofficial" -> FF_COMPLIANCE_UNOFFICIAL
      [] value = "Experimental" -> FF_COMPLIANCE_EXPERIMENTAL

Codes == ((-CodeSpan)..CodeSpan) \cup {MinI32, MaxI32}

\* ctrace[1] is the input, a code when ckind = "code" and a level when
\* ckind = "level"; each step converts the last value to the other type
IsCodeAt(i) == (ckind = "code") <=> (i % 2 = 1)

Decode ==
    /\ Len(ctrace) <= MaxConv
    /\ IsCodeAt(Len(ctrace))
    /\ ctrace' = Append(ctrace, from_c_int(ctrace[Len(ctrace)]))
    /\ UNCHANGED <<heap, frames, last, ckind>>

Encode ==
    /\ Len(ctrace) <= MaxConv
    /\ ~IsCodeAt(Len(ctrace))
    /\ ctrace' = Append(ctrace, into_c_int(ctrace[Len(ctrace)]))
    /\ UNCHANGED <<heap, frames, last, ckind>>

InitCompliance ==
    /\ FrameInit
    /\ \/ ckind = "code" /\ \E c \in Codes : ctrace = <<c>>
       \/ ckind = "level" /\ \E l \in Levels : ctrace = <<l>>

NextCompliance == Decode \/ Encode

SpecCompliance == InitCompliance /\ [][NextCompliance]_vars

\* ======================= properties =======================

FrameOps == {"drop", "set_pts", "set_metadata", "new_side_data", "remove_side_data"}

\* C1: a Frame made by wrap (own = FALSE) never calls av_frame_free on the
\* record it wraps, at destruction included.
C1_WrapNeverReleases ==
    \A f \in Fr : (frames[f].st # "none" /\ ~frames[f].own) => frames[f].frees = 0

\* C2: a Frame made by empty() that holds a record releases it exactly once:
\* while the Frame lives, whatever was called on it, the record is live and
\* unreleased; once the Frame is destroyed the record has been released once.
C2_OwnedReleasedOnce ==
    \A f \in Fr :
        (frames[f].own /\ frames[f].ptr # NULL) =>
            /\ frames[f].st = "live" =>
                  /\ buf(f).st = "live"
                  /\ buf(f).nfree = 0
                  /\ frames[f].frees = 0
            /\ frames[f].st = "dropped" =>
                  /\ buf(f).st = "freed"
                  /\ buf(f).nfree = 1
                  /\ frames[f].frees = 1

C2_Witness ==
    \E f \in Fr : frames[f].own /\ frames[f].ptr # NULL /\ frames[f].st = "dropped"

\* C3 as stated: after set_pts(x), pts() returns x, for None and for every
\* Some(v), v any 64-bit value.
C3_RoundTripEvery ==
    (last.op = "set_pts" /\ last.deref = "ok") => pts(last.f) = last.x

\* C3 amended: after set_pts(x), pts() returns x, for None and for every
\* Some(v) with v other than AV_NOPTS_VALUE; set_pts(Some(AV_NOPTS_VALUE))
\* is followed by pts() = None.
C3_RoundTripButSentinel ==
    (last.op = "set_pts" /\ last.deref = "ok") =>
        IF last.x = Some(AV_NOPTS_VALUE)
        THEN pts(last.f) = None
        ELSE pts(last.f) = last.x

C3_Witness ==
    /\ last.op = "set_pts"
    /\ last.deref = "ok"
    /\ last.x = Some(<<MinI32, 1>>)

\* C4: pts() never returns Some(AV_NOPTS_VALUE), whatever the pts field holds
\* and whatever was set before; a field holding the sentinel reads as None.
C4_SentinelExcluded ==
    \A f \in Fr :
        (frames[f].st = "live" /\ Deref(f) = "ok") =>
            /\ pts(f) # Some(AV_NOPTS_VALUE)
            /\ buf(f).pts = AV_NOPTS_VALUE => pts(f) = None

C4_Witness ==
    /\ last.op = "set_pts"
    /\ last.deref = "ok"
    /\ last.x = Some(AV_NOPTS_VALUE)
    /\ buf(last.f).pts = AV_NOPTS_VALUE

\* C5: a new_side_data(K, N) that returns a handle is followed by a
\* side_data(K) that returns a handle of extent N, in any Frame state.
C5_NewThenLookup ==
    (last.op = "new_side_data" /\ last.deref = "ok" /\ last.ret # None) =>
        side_data(last.f, last.k) = Some(last.n)

\* C6 as stated: after remove_side_data(K), side_data(K) is None however many
\* entries of K there were, side_data(K2) is what it was for every other
\* kind K2, and a frame without an entry of K is left as it was.
C6_RemoveEffect ==
    (last.op = "remove_side_data" /\ last.deref = "ok") =>
        /\ side_data(last.f, last.k) = None
        /\ \A k2 \in Kinds \ {last.k} : side_data(last.f, k2) = side_data_in(last.pre, k2)
        /\ Count(last.pre, Type_into(last.k)) = 0 => buf(last.f).side = last.pre

\* C6 amended: after remove_side_data(K), side_data(K) is None however many
\* entries of K there were; side_data(K2) is what it was for every other kind
\* K2 that had at most one entry, and is still a handle for a kind that had
\* several; a frame without an entry of K is left as it was.
C6_RemoveEffectSingle ==
    (last.op = "remove_side_data" /\ last.deref = "ok") =>
        /\ side_data(last.f, last.k) = None
        /\ \A k2 \in Kinds \ {last.k} :
              IF Count(last.pre, Type_into(k2)) <= 1
              THEN side_data(last.f, k2) = side_data_in(last.pre, k2)
              ELSE side_data(last.f, k2) # None
        /\ Count(last.pre, Type_into(last.k)) = 0 => buf(last.f).side = last.pre

C6_Witness ==
    /\ last.op = "remove_side_data"
    /\ last.deref = "ok"
    /\ Count(last.pre, Type_into(last.k)) >= 2
    /\ \E k2 \in Kinds \ {last.k} : Count(last.pre, Type_into(k2)) = 1

\* C7: every Frame empty() returns holds a non-null pointer to a live record
\* that it owns; when av_frame_alloc fails no Frame is returned.
C7_EmptyHoldsRecord ==
    last.op = "empty" =>
        /\ frames[last.f].own
        /\ frames[last.f].ptr # NULL
        /\ Deref(last.f) = "ok"

FiveCodes ==
    {FF_COMPLIANCE_VERY_STRICT, FF_COMPLIANCE_STRICT, FF_COMPLIANCE_NORMAL,
     FF_COMPLIANCE_UNOFFICIAL, FF_COMPLIANCE_EXPERIMENTAL}

\* C8: encoding a level and decoding the code gives the level back, so the
\* five codes are pairwise distinct; decoding a code that is none of the five
\* gives Normal, and encoding that gives FF_COMPLIANCE_NORMAL, not the code.
C8_ComplianceMapping ==
    /\ \A i \in 1..Len(ctrace) :
          /\ (~IsCodeAt(i) /\ i + 2 <= Len(ctrace)) => ctrace[i + 2] = ctrace[i]
          /\ (IsCodeAt(i) /\ ctrace[i] \notin FiveCodes /\ i + 1 <= Len(ctrace)) =>
                ctrace[i + 1] = "Normal"
          /\ (IsCodeAt(i) /\ ctrace[i] \notin FiveCodes /\ i + 2 <= Len(ctrace)) =>
                ctrace[i + 2] = FF_COMPLIANCE_NORMAL /\ ctrace[i + 2] # ctrace[i]
    /\ \A l1, l2 \in Levels : l1 # l2 => into_c_int(l1) # into_c_int(l2)

C8_Witness ==
    /\ ckind = "code"
    /\ Len(ctrace) = 3
    /\ ctrace[1] = 7

\* C9: on a wrapped record with raw flags r, flags() has exactly the named
\* bits that are set in r and no other bit, is_corrupt() holds iff the corrupt
\* bit is set in r, and is_key() holds iff key_frame = 1, whatever r is.
C9_FlagsDecoded ==
    \A f \in Fr :
        (frames[f].st = "live" /\ ~frames[f].own /\ Deref(f) = "ok") =>
            /\ flags(f) \in 0..(CORRUPT + KEY + DISCARD + INTERLACED)
            /\ \A m \in NamedBits : HasBit(flags(f), m) <=> HasBit(buf(f).flags, m)
            /\ is_corrupt(f) <=> HasBit(buf(f).flags, CORRUPT)
            /\ is_key(f) <=> (buf(f).key_frame = 1)

C9_Witness ==
    \E f \in Fr :
        /\ frames[f].st = "live"
        /\ ~frames[f].own
        /\ buf(f).flags = 2 ^ (RawBits - 1) + CORRUPT
        /\ buf(f).key_frame = 1

\* C10: whatever the order of empty(), wrap(p) and destructions, every record
\* is released at most once, and no Frame is destroyed or used while its
\* pointer is to a record already released.
C10_AtMostOneRelease ==
    /\ \A b \in Buf : heap[b].nfree <= 1
    /\ ~(last.op \in FrameOps /\ last.deref = "freed")

====
